---- MODULE Spec2Model ----
(***************************************************************************)
(* Model of package slices (src/slices.go): helper functions on Go slices  *)
(* with negative indexing.                                                 *)
(*                                                                         *)
(* A Go slice is a handle (array, offset, len, cap) onto a backing array.  *)
(* The heap is the sequence of live backing arrays.  Every library         *)
(* function is an operator from (heap, handle, arguments) to a call        *)
(* outcome: the heap after the call, the returned handle or value, and     *)
(* whether the call returned (ok) or ended in a run-time panic.            *)
(*                                                                         *)
(* The state machine is a caller that owns a slice s and makes one call    *)
(* r = F(s, ...) of a library function.  When F returned a range view of   *)
(* s, the caller goes on reading and writing elements through both handles *)
(* s and r, any number of times.                                           *)
(***************************************************************************)
EXTENDS Integers, Sequences, FiniteSets, TLC

\* Largest backing array the caller allocates for s.
MaxCap == 3
\* Most values passed in one variadic argument list.
MaxVals == 2

\* The values of the element type T the caller stores.  T's zero value, which
\* fresh array slots hold, is written 0.
Elem == {1, 2}

\* Spare capacity append may add beyond what is needed when it reallocates
\* (the growth policy is the runtime's; every outcome is allowed).
GrowSlack == {0, 1}

\* Raw index arguments, counts and argument lists the caller passes.
Idx == (0 - (MaxCap + 1)) .. (MaxCap + 1)
Cnt == (0 - 1) .. (MaxCap + 1)
SeqsUpTo(S, n) == UNION {[1..k -> S] : k \in 0..n}
ValLists == SeqsUpTo(Elem, MaxVals)

VARIABLES heap, s, r, span, last, pc
vars == <<heap, s, r, span, last, pc>>

Min(a, b) == IF a < b THEN a ELSE b

----------------------------------------------------------------------------
(* Go's slice primitives *)

\* The nil slice.
NilSlice == [arr |-> 0, off |-> 0, len |-> 0, cap |-> 0]

\* The elements of x in order.
Contents(hp, x) == [k \in 1..x.len |-> hp[x.arr][x.off + k]]

\* x[i] is in range iff 0 <= i < len(x).
IndexOK(x, i) == 0 <= i /\ i < x.len

\* x[lo:hi] is in range iff 0 <= lo <= hi <= cap(x).
SliceOK(x, lo, hi) == 0 <= lo /\ lo <= hi /\ hi <= x.cap

\* x[lo:hi]: same array, shifted offset; the capacity runs to the old end.
Reslice(x, lo, hi) ==
    [arr |-> x.arr, off |-> x.off + lo, len |-> hi - lo, cap |-> x.cap - lo]

\* x[i] = v
Store(hp, x, i, v) == [hp EXCEPT ![x.arr][x.off + i + 1] = v]

\* copy(dst, src) between slices: min(len) elements, correct for overlap.
copy(hp, dst, src) ==
    LET m == Min(dst.len, src.len)
    IN  IF m = 0 THEN hp
        ELSE [hp EXCEPT ![dst.arr] =
                [k \in 1..Len(hp[dst.arr]) |->
                    IF dst.off < k /\ k <= dst.off + m
                    THEN hp[src.arr][src.off + (k - dst.off)]
                    ELSE hp[dst.arr][k]]]

\* copy(dst, vals) from an argument list.
copyVals(hp, dst, vals) ==
    LET m == Min(dst.len, Len(vals))
    IN  IF m = 0 THEN hp
        ELSE [hp EXCEPT ![dst.arr] =
                [k \in 1..Len(hp[dst.arr]) |->
                    IF dst.off < k /\ k <= dst.off + m
                    THEN vals[k - dst.off]
                    ELSE hp[dst.arr][k]]]

\* append(x, vals...): in place when the capacity suffices, else into a new
\* array of capacity len(x)+len(vals)+slack.  Yields the heap and the slice.
append(hp, x, vals, slack) ==
    LET need == x.len + Len(vals)
    IN  IF need <= x.cap
        THEN LET grown == [x EXCEPT !.len = need]
             IN  [hp |-> copyVals(hp, Reslice(grown, x.len, need), vals),
                  s  |-> grown]
        ELSE LET old == Contents(hp, x)
                 fresh == [k \in 1..(need + slack) |->
                             IF k <= x.len THEN old[k]
                             ELSE IF k <= need THEN vals[k - x.len]
                             ELSE 0]
             IN  [hp |-> Append(hp, fresh),
                  s  |-> [arr |-> Len(hp) + 1, off |-> 0,
                          len |-> need, cap |-> need + slack]]

----------------------------------------------------------------------------
(* Call outcomes *)

\* The call returned slice x.
Ret(hp, x) == [hp |-> hp, s |-> x, val |-> 0, ok |-> TRUE]
\* The call returned element v.
RetVal(hp, v) == [hp |-> hp, s |-> NilSlice, val |-> v, ok |-> TRUE]
\* The call panicked (index or slice bounds out of range).
Panic(hp) == [hp |-> hp, s |-> NilSlice, val |-> 0, ok |-> FALSE]

----------------------------------------------------------------------------
(* The library *)

\* Bug variant: the negative case is forgotten.
norm_noWrap(x, idx) == idx

\* if idx < 0 { idx += len(s) }
norm(x, idx) == IF idx < 0 THEN idx + x.len ELSE idx

\* Bug variant: to == 0 is taken as position 0, not as len(s).
normTo_noSentinel(x, to) == IF to < 0 THEN to + x.len ELSE to

\* if to < 0 { to += len(s) } else if to == 0 { to = len(s) }
normTo(x, to) == IF to < 0 THEN to + x.len ELSE IF to = 0 THEN x.len ELSE to

Get(hp, x, idx) ==
    LET i == norm(x, idx)
    IN  IF IndexOK(x, i) THEN RetVal(hp, hp[x.arr][x.off + i + 1]) ELSE Panic(hp)

Put(hp, x, idx, v) ==
    LET i == norm(x, idx)
    IN  IF IndexOK(x, i) THEN Ret(Store(hp, x, i, v), x) ELSE Panic(hp)

\* Bug variant: the tail is shifted by one place, not by len(vals).
insert_shiftByOne(hp, x, idx, vals, slack) ==
    LET a == append(hp, x, vals, slack)
        lv == Len(vals)
    IN  IF ~SliceOK(a.s, idx + lv, a.s.len) \/ ~SliceOK(a.s, idx, a.s.len)
        THEN Panic(a.hp)
        ELSE LET h1 == copy(a.hp, Reslice(a.s, Min(idx + 1, a.s.len), a.s.len),
                                  Reslice(a.s, idx, a.s.len))
                 h2 == copyVals(h1, Reslice(a.s, idx, a.s.len), vals)
             IN  Ret(h2, a.s)

insert(hp, x, idx, vals, slack) ==
    LET a == append(hp, x, vals, slack)
        lv == Len(vals)
    IN  IF ~SliceOK(a.s, idx + lv, a.s.len) \/ ~SliceOK(a.s, idx, a.s.len)
        THEN Panic(a.hp)
        ELSE LET h1 == copy(a.hp, Reslice(a.s, idx + lv, a.s.len),
                                  Reslice(a.s, idx, a.s.len))
                 h2 == copyVals(h1, Reslice(a.s, idx, a.s.len), vals)
             IN  Ret(h2, a.s)

Insert(hp, x, idx, vals, slack) == insert(hp, x, norm(x, idx), vals, slack)

\* Bug variant: the slice is truncated without moving the tail left.
removeN_noShift(hp, x, idx, n) ==
    IF ~SliceOK(x, idx, x.len) \/ ~SliceOK(x, idx + n, x.len)
    THEN Panic(hp)
    ELSE LET newlen == x.len - n
         IN  IF SliceOK(x, 0, newlen) THEN Ret(hp, Reslice(x, 0, newlen))
             ELSE Panic(hp)

\* Bug variant: the tail is moved left but the old length is returned.
removeN_keepLen(hp, x, idx, n) ==
    IF ~SliceOK(x, idx, x.len) \/ ~SliceOK(x, idx + n, x.len)
    THEN Panic(hp)
    ELSE Ret(copy(hp, Reslice(x, idx, x.len), Reslice(x, idx + n, x.len)), x)

removeN(hp, x, idx, n) ==
    IF ~SliceOK(x, idx, x.len) \/ ~SliceOK(x, idx + n, x.len)
    THEN Panic(hp)
    ELSE LET h1 == copy(hp, Reslice(x, idx, x.len), Reslice(x, idx + n, x.len))
             newlen == x.len - n
         IN  IF SliceOK(x, 0, newlen) THEN Ret(h1, Reslice(x, 0, newlen))
             ELSE Panic(h1)

\* Bug variant: idx is not advanced past the values insert already stored.
replaceN_keepIdx(hp, x, idx, n, vals, slack) ==
    LET lv == Len(vals)
        delta == lv - n
        grow == n < lv
        a == IF n > lv THEN removeN(hp, x, idx, n - lv)
             ELSE IF grow
                  THEN IF delta > lv THEN Panic(hp)
                       ELSE insert(hp, x, idx, SubSeq(vals, 1, delta), slack)
                  ELSE Ret(hp, x)
        vals2 == IF grow THEN SubSeq(vals, delta + 1, lv) ELSE vals
    IN  IF ~a.ok THEN a
        ELSE IF ~SliceOK(a.s, idx, a.s.len) THEN Panic(a.hp)
        ELSE Ret(copyVals(a.hp, Reslice(a.s, idx, a.s.len), vals2), a.s)

replaceN(hp, x, idx, n, vals, slack) ==
    LET lv == Len(vals)
        delta == lv - n
        grow == n < lv
        \* vals[:delta] needs delta <= cap(vals) = len(vals)
        a == IF n > lv THEN removeN(hp, x, idx, n - lv)
             ELSE IF grow
                  THEN IF delta > lv THEN Panic(hp)
                       ELSE insert(hp, x, idx, SubSeq(vals, 1, delta), slack)
                  ELSE Ret(hp, x)
        idx2 == IF grow THEN idx + delta ELSE idx
        vals2 == IF grow THEN SubSeq(vals, delta + 1, lv) ELSE vals
    IN  IF ~a.ok THEN a
        ELSE IF ~SliceOK(a.s, idx2, a.s.len) THEN Panic(a.hp)
        ELSE Ret(copyVals(a.hp, Reslice(a.s, idx2, a.s.len), vals2), a.s)

ReplaceN(hp, x, idx, n, vals, slack) ==
    replaceN(hp, x, norm(x, idx), n, vals, slack)

ReplaceTo(hp, x, from, to, vals, slack) ==
    replaceN(hp, x, norm(x, from), normTo(x, to) - norm(x, from), vals, slack)

RemoveN(hp, x, idx, n) == removeN(hp, x, norm(x, idx), n)

RemoveTo(hp, x, from, to) ==
    removeN(hp, x, norm(x, from), normTo(x, to) - norm(x, from))

Prefix(hp, x, idx) ==
    LET i == norm(x, idx)
    IN  IF SliceOK(x, 0, i) THEN Ret(hp, Reslice(x, 0, i)) ELSE Panic(hp)

\* Bug variant: an index past the end is clamped to len(s).
Suffix_clamped(hp, x, idx) ==
    LET i == Min(norm(x, idx), x.len)
    IN  IF SliceOK(x, i, x.len) THEN Ret(hp, Reslice(x, i, x.len)) ELSE Panic(hp)

Suffix(hp, x, idx) ==
    LET i == norm(x, idx)
    IN  IF SliceOK(x, i, x.len) THEN Ret(hp, Reslice(x, i, x.len)) ELSE Panic(hp)

\* Bug variant: the elements are copied into a new array.
SliceN_copies(hp, x, idx, n) ==
    LET i == norm(x, idx)
    IN  IF SliceOK(x, i, i + n)
        THEN Ret(Append(hp, Contents(hp, Reslice(x, i, i + n))),
                 [arr |-> Len(hp) + 1, off |-> 0, len |-> n, cap |-> n])
        ELSE Panic(hp)

SliceN(hp, x, idx, n) ==
    LET i == norm(x, idx)
    IN  IF SliceOK(x, i, i + n) THEN Ret(hp, Reslice(x, i, i + n)) ELSE Panic(hp)

\* Bug variant: to == 0 is taken as position 0.
SliceTo_noSentinel(hp, x, from, to) ==
    LET f == norm(x, from)
        t == norm(x, to)
    IN  IF SliceOK(x, f, t) THEN Ret(hp, Reslice(x, f, t)) ELSE Panic(hp)

SliceTo(hp, x, from, to) ==
    LET f == norm(x, from)
        t == normTo(x, to)
    IN  IF SliceOK(x, f, t) THEN Ret(hp, Reslice(x, f, t)) ELSE Panic(hp)

\* Append(s, vals...) is the builtin append.
AppendTo(hp, x, vals, slack) ==
    LET a == append(hp, x, vals, slack) IN Ret(a.hp, a.s)

----------------------------------------------------------------------------
(* The caller *)

\* Arrays no handle refers to are garbage: the heap keeps s's array and, when
\* it is another one, the array of the slice kept in r.
Collect(hp, keep) ==
    IF keep.arr <= 1 THEN [hp |-> <<hp[1]>>, r |-> keep]
    ELSE [hp |-> <<hp[1], hp[keep.arr]>>, r |-> [keep EXCEPT !.arr = 2]]

\* What the caller remembers of its latest call: the function, its arguments,
\* s's backing array as it was before the call, and how the call ended.
Call(op, on, idx, n, vals, v, out) ==
    [op |-> op, on |-> on, idx |-> idx, n |-> n, vals |-> vals, v |-> v,
     before |-> <<heap[1]>>, ok |-> out.ok, val |-> out.val]

Init ==
    /\ \E a \in SeqsUpTo(Elem, MaxCap) :
         /\ heap = <<a>>
         /\ \E o \in 0..Len(a) : \E l \in 0..(Len(a) - o) :
               s = [arr |-> 1, off |-> o, len |-> l, cap |-> Len(a) - o]
    /\ r = NilSlice
    /\ span = <<>>
    /\ last = [op |-> "none", on |-> "s", idx |-> 0, n |-> 0, vals |-> <<>>,
               v |-> 0, before |-> heap, ok |-> TRUE, val |-> 0]
    /\ pc = "start"

Handle(h) == IF h = "s" THEN s ELSE r

\* r = F(s, ...) for a splicing function: on return r holds the result; a
\* panic leaves r as it was.  Either way s's storage may have been rewritten.
Splice(out, rec) ==
    LET g == Collect(out.hp, IF out.ok THEN out.s ELSE r)
    IN  /\ heap' = g.hp
        /\ r' = g.r
        /\ span' = <<>>
        /\ last' = rec
        /\ pc' = "done"
        /\ UNCHANGED s

\* r = F(s, ...) for a range view over the raw span [a, b) of s.
View(out, rec, a, b) ==
    LET g == Collect(out.hp, IF out.ok THEN out.s ELSE r)
    IN  /\ heap' = g.hp
        /\ r' = g.r
        /\ span' = IF out.ok THEN <<a, b>> ELSE span
        /\ last' = rec
        /\ pc' = IF out.ok THEN "view" ELSE "done"
        /\ UNCHANGED s

CallGet ==
    /\ pc \in {"start", "view"}
    /\ \E h \in {"s", "r"} : \E idx \in Idx :
        LET out == Get(heap, Handle(h), idx)
        IN  /\ last' = Call("Get", h, idx, 0, <<>>, 0, out)
            /\ pc' = IF pc = "view" THEN "view" ELSE "done"
            /\ UNCHANGED <<heap, s, r, span>>

CallPut ==
    /\ pc \in {"start", "view"}
    /\ \E h \in {"s", "r"} : \E idx \in Idx : \E v \in Elem :
        LET out == Put(heap, Handle(h), idx, v)
        IN  /\ heap' = out.hp
            /\ last' = Call("Put", h, idx, 0, <<>>, v, out)
            /\ pc' = IF pc = "view" THEN "view" ELSE "done"
            /\ UNCHANGED <<s, r, span>>

CallAppend ==
    /\ pc = "start"
    /\ \E vals \in ValLists : \E k \in GrowSlack :
        LET out == AppendTo(heap, s, vals, k)
        IN  Splice(out, Call("Append", "s", 0, 0, vals, 0, out))

CallInsert ==
    /\ pc = "start"
    /\ \E idx \in Idx : \E vals \in ValLists : \E k \in GrowSlack :
        LET out == Insert(heap, s, idx, vals, k)
        IN  Splice(out, Call("Insert", "s", idx, 0, vals, 0, out))

CallReplaceN ==
    /\ pc = "start"
    /\ \E idx \in Idx : \E n \in Cnt : \E vals \in ValLists : \E k \in GrowSlack :
        LET out == ReplaceN(heap, s, idx, n, vals, k)
        IN  Splice(out, Call("ReplaceN", "s", idx, n, vals, 0, out))

CallReplaceTo ==
    /\ pc = "start"
    /\ \E from \in Idx : \E to \in Idx : \E vals \in ValLists : \E k \in GrowSlack :
        LET out == ReplaceTo(heap, s, from, to, vals, k)
        IN  Splice(out, Call("ReplaceTo", "s", from, to, vals, 0, out))

CallRemoveN ==
    /\ pc = "start"
    /\ \E idx \in Idx : \E n \in Cnt :
        LET out == RemoveN(heap, s, idx, n)
        IN  Splice(out, Call("RemoveN", "s", idx, n, <<>>, 0, out))

CallRemoveTo ==
    /\ pc = "start"
    /\ \E from \in Idx : \E to \in Idx :
        LET out == RemoveTo(heap, s, from, to)
        IN  Splice(out, Call("RemoveTo", "s", from, to, <<>>, 0, out))

CallPrefix ==
    /\ pc = "start"
    /\ \E idx \in Idx :
        LET out == Prefix(heap, s, idx)
        IN  View(out, Call("Prefix", "s", idx, 0, <<>>, 0, out),
                 0, norm(s, idx))

CallSuffix ==
    /\ pc = "start"
    /\ \E idx \in Idx :
        LET out == Suffix(heap, s, idx)
        IN  View(out, Call("Suffix", "s", idx, 0, <<>>, 0, out),
                 norm(s, idx), s.len)

CallSliceN ==
    /\ pc = "start"
    /\ \E idx \in Idx : \E n \in Cnt :
        LET out == SliceN(heap, s, idx, n)
        IN  View(out, Call("SliceN", "s", idx, n, <<>>, 0, out),
                 norm(s, idx), norm(s, idx) + n)

CallSliceTo ==
    /\ pc = "start"
    /\ \E from \in Idx : \E to \in Idx :
        LET out == SliceTo(heap, s, from, to)
        IN  View(out, Call("SliceTo", "s", from, to, <<>>, 0, out),
                 norm(s, from), normTo(s, to))

Next ==
    \/ CallGet
    \/ CallPut
    \/ CallAppend
    \/ CallInsert
    \/ CallReplaceN
    \/ CallReplaceTo
    \/ CallRemoveN
    \/ CallRemoveTo
    \/ CallPrefix
    \/ CallSuffix
    \/ CallSliceN
    \/ CallSliceTo

Spec == Init /\ [][Next]_vars

----------------------------------------------------------------------------
(* Properties *)

\* The slice s before the latest call, the slice the call returned, and the
\* handle the call was made on.
Before == Contents(last.before, s)
Result == Contents(heap, r)
On == Handle(last.on)

Take(q, n) == SubSeq(q, 1, n)
Drop(q, n) == SubSeq(q, n + 1, Len(q))

\* The absolute position a raw index denotes in a sequence of length n, and
\* the absolute end a raw end-point denotes (0 stands for the end).
AbsIdx(idx, n) == IF idx >= 0 THEN idx ELSE idx + n
AbsTo(to, n) == IF to = 0 THEN n ELSE IF to < 0 THEN to + n ELSE to

C3_RemoveNSplices ==
    LET i == AbsIdx(last.idx, s.len)
    IN  (last.op = "RemoveN" /\ 0 <= i /\ last.n >= 0 /\ i + last.n <= s.len) =>
            /\ last.ok
            /\ Result = Take(Before, i) \o Drop(Before, i + last.n)
            /\ r.len = s.len - last.n
            /\ (last.n = 0 => Result = Before)

\* C3 witness: one element removed with elements left on both sides.
C3_Witness ==
    /\ last.op = "RemoveN" /\ last.ok
    /\ last.n = 1 /\ AbsIdx(last.idx, s.len) = 1 /\ s.len = 3
    /\ Result = <<Before[1], Before[3]>>
    /\ Before[2] # Before[3]

\* C4: removing len(vals) elements at the absolute insertion position from
\* the result of Insert(S, idx, vals...) gives back the contents of S.
C4_InsertRemoveInverse ==
    (last.op = "Insert" /\ 0 - s.len <= last.idx /\ last.idx <= s.len) =>
        LET i == AbsIdx(last.idx, s.len)
            back == RemoveN(heap, r, i, Len(last.vals))
        IN  /\ last.ok
            /\ back.ok
            /\ Contents(back.hp, back.s) = Before

\* C4 witness: values inserted before the end of a non-empty slice, and the
\* removal restores it.
C4_Witness ==
    /\ last.op = "Insert" /\ last.ok
    /\ last.vals # <<>> /\ s.len >= 2
    /\ AbsIdx(last.idx, s.len) \in 0..(s.len - 1)
    /\ Result # Before
    /\ Contents(RemoveN(heap, r, AbsIdx(last.idx, s.len), Len(last.vals)).hp,
                RemoveN(heap, r, AbsIdx(last.idx, s.len), Len(last.vals)).s)
         = Before

\* C5: on a non-empty slice X and 0 <= j < len(X): Get(X, j - len(X)) returns
\* X[j], as Get(X, j) does; Put(X, j - len(X), v) stores v at position j and
\* changes nothing else, as Put(X, j, v) does.
C5_NegativeIndexAccess ==
    LET j == last.idx + On.len
    IN  /\ (last.op = "Get" /\ last.idx < 0 /\ 0 <= j) =>
              /\ last.ok
              /\ last.val = heap[On.arr][On.off + j + 1]
              /\ Get(heap, On, j).ok
              /\ Get(heap, On, j).val = last.val
              /\ heap = last.before
        /\ (last.op = "Put" /\ last.idx < 0 /\ 0 <= j) =>
              /\ last.ok
              /\ heap[On.arr][On.off + j + 1] = last.v
              /\ \A a \in 1..Len(heap) : \A k \in 1..Len(heap[a]) :
                    (a # On.arr \/ k # On.off + j + 1)
                        => heap[a][k] = last.before[a][k]
              /\ Len(heap[On.arr]) = Len(last.before[On.arr])
              /\ heap = Put(last.before, On, j, last.v).hp

\* C5 witness: Get(X, -1) has returned the last element of a slice whose
\* elements differ.
C5_Witness ==
    /\ last.op = "Get" /\ last.ok /\ last.idx = 0 - 1
    /\ On.len >= 2
    /\ last.val = heap[On.arr][On.off + On.len]
    /\ last.val # heap[On.arr][On.off + 1]

\* C6: for 0 <= f <= t <= len(S) (f, t the absolute from and to), ReplaceTo,
\* RemoveTo and SliceTo return what ReplaceN, RemoveN and SliceN return for
\* idx = f and n = t - f, and leave the storage of S in the same state.
C6_SpanFormEqualsCountForm ==
    LET f == AbsIdx(last.idx, s.len)
        t == AbsTo(last.n, s.len)
    IN  (0 <= f /\ f <= t /\ t <= s.len) =>
          /\ last.op = "ReplaceTo" =>
                LET o == ReplaceN(last.before, s, f, t - f, last.vals, 0)
                IN  /\ last.ok /\ o.ok
                    /\ Result = Contents(o.hp, o.s)
                    /\ heap[1] = o.hp[1]
          /\ last.op = "RemoveTo" =>
                LET o == RemoveN(last.before, s, f, t - f)
                IN  /\ last.ok /\ o.ok
                    /\ r = o.s
                    /\ heap = o.hp
          /\ last.op = "SliceTo" =>
                LET o == SliceN(last.before, s, f, t - f)
                IN  /\ last.ok /\ o.ok
                    /\ r = o.s
                    /\ heap = o.hp

\* C6 witness: ReplaceTo with a negative from and the end sentinel to = 0 has
\* replaced a non-empty tail.
C6_Witness ==
    /\ last.op = "ReplaceTo" /\ last.ok
    /\ last.idx < 0 /\ last.n = 0 /\ 0 - s.len <= last.idx
    /\ last.vals # <<>>
    /\ Result = Take(Before, s.len + last.idx) \o last.vals

\* C7: for -len(S) <= k <= len(S), Suffix(S, k) and SliceTo(S, k, 0) return
\* the same elements, S[k'..len(S)) with k' the absolute k; for k = 0, all of S.
C7_SentinelIsSuffix ==
    (last.op = "Suffix" /\ 0 - s.len <= last.idx /\ last.idx <= s.len) =>
        LET k == AbsIdx(last.idx, s.len)
            o == SliceTo(last.before, s, last.idx, 0)
        IN  /\ last.ok /\ o.ok
            /\ Result = Drop(Before, k)
            /\ Contents(o.hp, o.s) = Result
            /\ (last.idx = 0 => Result = Before)

\* C7 witness: Suffix at a positive position of a slice with a non-empty tail.
C7_Witness ==
    /\ last.op = "Suffix" /\ last.ok
    /\ last.idx >= 1 /\ last.idx < s.len
    /\ Result = Contents(SliceTo(last.before, s, last.idx, 0).hp,
                         SliceTo(last.before, s, last.idx, 0).s)
    /\ Len(Result) >= 1

\* The preconditions of the latest call, as the documentation states them.
StartOK == LET i == AbsIdx(last.idx, On.len) IN 0 <= i /\ i <= On.len
CountOK ==
    LET i == AbsIdx(last.idx, On.len)
    IN  StartOK /\ last.n >= 0 /\ i + last.n <= On.len
SpanOK ==
    LET f == AbsIdx(last.idx, On.len)
        t == AbsTo(last.n, On.len)
    IN  0 <= f /\ f <= t /\ t <= On.len
PreconditionOK ==
    CASE last.op \in {"Get", "Put"} ->
            LET i == AbsIdx(last.idx, On.len) IN 0 <= i /\ i < On.len
      [] last.op \in {"Insert", "Prefix", "Suffix"} -> StartOK
      [] last.op \in {"RemoveN", "ReplaceN", "SliceN"} -> CountOK
      [] last.op \in {"RemoveTo", "ReplaceTo", "SliceTo"} -> SpanOK
      [] OTHER -> TRUE

\* C8 as stated: every call that violates its preconditions ends in an
\* out-of-bounds fault and returns nothing.
C8_EveryViolationFaults == ~PreconditionOK => ~last.ok

\* C8 amended: a violating call faults when the function is Get, Put, Insert
\* or Suffix; when the absolute start is below 0 (any function); when the
\* absolute start is above len(S) in RemoveN, RemoveTo, ReplaceN, ReplaceTo;
\* when the removed span ends beyond len(S) in RemoveN, RemoveTo; and when the
\* span of Prefix, SliceN, SliceTo ends before its start or beyond cap(S).
C8_ViolationsThatFault ==
    LET i == AbsIdx(last.idx, On.len)
        e == IF last.op \in {"RemoveTo", "SliceTo"} THEN AbsTo(last.n, On.len)
             ELSE IF last.op = "Prefix" THEN i
             ELSE i + last.n
        b == IF last.op = "Prefix" THEN 0 ELSE i
    IN  /\ (last.op \in {"Get", "Put", "Insert", "Suffix"} /\ ~PreconditionOK)
              => ~last.ok
        /\ (last.op # "none" /\ last.op # "Append" /\ i < 0) => ~last.ok
        /\ (last.op \in {"RemoveN", "RemoveTo", "ReplaceN", "ReplaceTo"}
                /\ i > On.len) => ~last.ok
        /\ (last.op \in {"RemoveN", "RemoveTo"} /\ e > On.len) => ~last.ok
        /\ (last.op \in {"Prefix", "SliceN", "SliceTo"}
                /\ (e < b \/ e > On.cap)) => ~last.ok

\* C8 witness: Suffix called with an index past the end has panicked.
C8_Witness ==
    /\ last.op = "Suffix" /\ ~last.ok
    /\ last.idx > s.len /\ s.len >= 1

\* C9 as stated: after R = Insert(S, idx, vals...) with a valid idx and
\* non-empty vals, R shares S's storage, and S's positions from the absolute
\* idx up to its old length hold what R holds there.
C9_InsertWritesInputStorage ==
    (last.op = "Insert" /\ 0 - s.len <= last.idx /\ last.idx <= s.len
        /\ last.vals # <<>>) =>
        LET i == AbsIdx(last.idx, s.len)
        IN  /\ last.ok
            /\ r.arr = s.arr /\ r.off = s.off
            /\ \A k \in i..(s.len - 1) :
                  heap[s.arr][s.off + k + 1] = heap[r.arr][r.off + k + 1]

\* The normalized span of the latest view lies within S.
SpanInRange ==
    /\ span # <<>>
    /\ 0 <= span[1] /\ span[1] <= span[2] /\ span[2] <= s.len

\* C10: a view V of the in-range span [a, b) of S has V[k] = S[a + k] for
\* 0 <= k < b - a, making it leaves S as it was, and any Puts through V or S
\* keep the relation: Put(V, k, x) stores x at S[a + k] and nowhere else,
\* Put(S, a + k, x) stores x at V[k].
C10_ViewsAliasParent ==
    (pc = "view" /\ SpanInRange) =>
        LET a == span[1]
            b == span[2]
        IN  /\ r.len = b - a
            /\ \A k \in 0..(b - a - 1) :
                  heap[r.arr][r.off + k + 1] = heap[s.arr][s.off + a + k + 1]
            /\ last.op \in {"Prefix", "Suffix", "SliceN", "SliceTo"}
                  => heap = last.before
            /\ (last.op = "Put" /\ last.ok /\ last.on = "r") =>
                  LET k == AbsIdx(last.idx, r.len)
                  IN  /\ heap[s.arr][s.off + a + k + 1] = last.v
                      /\ \A p \in 1..Len(heap[s.arr]) :
                            p # s.off + a + k + 1
                                => heap[s.arr][p] = last.before[s.arr][p]
            /\ (last.op = "Put" /\ last.ok /\ last.on = "s") =>
                  LET p == AbsIdx(last.idx, s.len)
                  IN  (a <= p /\ p < b)
                        => heap[r.arr][r.off + (p - a) + 1] = last.v

\* C10 witness: a Put through a view that starts inside S has changed the
\* element of S it aliases.
C10_Witness ==
    /\ pc = "view" /\ SpanInRange
    /\ last.op = "Put" /\ last.ok /\ last.on = "r"
    /\ span[1] >= 1
    /\ heap[s.arr][s.off + span[1] + AbsIdx(last.idx, r.len) + 1] = last.v
    /\ last.before[s.arr][s.off + span[1] + AbsIdx(last.idx, r.len) + 1] # last.v

====
